---- MODULE Spec2Model ----
(***************************************************************************)
(* Model of the LDC retrieval-augmented-generation backend: the vector     *)
(* store service (ChromaService), the directory synchronisation            *)
(* (sync_directory), the service lifecycle (Application, BaseService) and  *)
(* the FastAPI routes that call them.                                      *)
(*                                                                         *)
(* Scheduling: every route is an `async def` served by one event loop; a   *)
(* handler body without `await` runs to completion before another handler  *)
(* starts.  sync_directory is modelled step by step (one file at a time)   *)
(* so that this serialisation is a property of the model, not a premise.   *)
(*                                                                         *)
(* Time: add_document stamps a document with get_current_timestamp(); the  *)
(* model's clock advances by one at every document stored.  The files of   *)
(* data/raw are edited between handler runs.                               *)
(***************************************************************************)
EXTENDS Integers, FiniteSets, Sequences, TLC

\* ---------------------------------------------------------------- bounds
\* Number of documents the store may be asked to add over a whole run.
MaxDocs == 3

\* ------------------------------------------------------------ the inputs
\* os.listdir("data/raw"): two .txt files and one file the filter ignores.
DirNames == {"a.txt", "b.txt", "notes.md"}
\* filename.endswith('.txt')
TxtNames == {n \in DirNames : n \in {"a.txt", "b.txt"}}
\* A file's content; content 0 is the empty file.
Contents == {0, 1, 2}
NoSource == "none"
NoFile == "-"
\* the document ids the delete and update requests name
RequestIds == {1, 2}
\* texts of the free-text and update requests
RequestTexts == {"text"}

\* (variant) the vector store is built first
InitOrder_store_first == <<"chroma", "embedding", "llm", "loader", "rag">>

\* (variant) the loader and the vector store are built before the generation
InitOrder_store_early == <<"embedding", "loader", "chroma", "llm", "rag">>

\* The services of Application, in the order initialize_services builds them.
InitOrder == <<"embedding", "llm", "loader", "chroma", "rag">>
Services == {InitOrder[i] : i \in 1..Len(InitOrder)}
\* The services shutdown_services shuts down, in its order.
ShutdownOrder == <<"rag", "chroma", "llm", "embedding">>

SyncIds == {"startup", "req1", "req2"}

VARIABLES
    files,        \* data/raw: file name -> content
    store,        \* the Chroma collection: a set of documents
    nextId,       \* ids handed out so far (Chroma gives each added document a fresh id)
    now,          \* the wall clock
    initialized,  \* BaseService._initialized of every service
    phase,        \* lifespan: "down", "startup" (startup sync running), "serving"
    syncs,        \* the sync_directory invocations: slot -> its position and stats
    response,     \* what the step just taken returned to its caller
    prevRun,      \* the last finished sync's counts, while nothing has changed since
    queries,      \* the /rag/rag_chat requests: slot -> its position in get_answer
    qa_chain,     \* RAGService._qa_chain is built
    interactions, \* the interaction_logs table, with each row's tag rows
    nextRow,      \* primary keys handed out so far
    reply,        \* what the vector-store search or interactions route just run returned
    life,         \* Application: where initialize_services / shutdown_services stand
    update        \* the update_document call that has deleted and not yet added

storeVars == <<files, store, nextId, now, initialized, phase, syncs, response, prevRun>>
ragVars == <<queries, qa_chain, interactions, nextRow, reply>>
vars == <<files, store, nextId, now, initialized, phase, syncs, response, prevRun,
          queries, qa_chain, interactions, nextRow, reply, life, update>>
lifeVars == <<life, update>>

\* ------------------------------------------------------- pure operators
\* RecursiveCharacterTextSplitter.split_documents: the number of chunks grows
\* with the length of the text; the empty text gives none.
NumChunks(c) == c

split_documents(c) == [i \in 1..NumChunks(c) |-> i]

\* Metadata keys sync_directory puts on a chunk, with add_document's timestamps.
SyncKeys == {"source", "file_modified_at", "document_type", "content_type"}

Doc(id, source, content, chunk, t, keys) ==
    [id |-> id, source |-> source, content |-> content, chunk |-> chunk,
     created_at |-> t, updated_at |-> t, keys |-> keys]

\* (variant) the lookup finds nothing, whatever the store holds
is_file_processed_never(st, filename, lookupOk) == FALSE

\* (variant) a file counts as processed when every chunk of it is stored
is_file_processed_whole(st, filename, lookupOk) ==
    lookupOk /\ \E d \in st : d.source = filename /\ d.chunk = NumChunks(d.content)

\* ChromaService.is_file_processed: a metadata lookup by file name; a lookup
\* that raises is logged and answered False.
is_file_processed(st, filename, lookupOk) ==
    IF ~lookupOk THEN FALSE
    ELSE \E d \in st : d.source = filename

\* ChromaService.get_all_documents
get_all_documents(st) == {[id |-> d.id, content |-> <<d.content, d.chunk>>,
                           metadata |-> <<d.source, d.updated_at>>] : d \in st}

ZeroStats == [total_files |-> 0, processed_files |-> 0,
              skipped_files |-> 0, error_files |-> 0]

NoPrev == [valid |-> FALSE, processed_files |-> 0, error_free |-> FALSE]

IdleSync == [pc |-> "idle", todo |-> {}, cur |-> NoFile, stats |-> ZeroStats,
             force |-> FALSE, lookupOk |-> TRUE, failures |-> 0, lookup_failed |-> FALSE,
             empty_at_start |-> FALSE, raised |-> FALSE]

NoReport == [valid |-> FALSE, stats |-> ZeroStats, force |-> FALSE,
             failures |-> 0, lookup_failed |-> FALSE, empty_at_start |-> FALSE,
             raised |-> FALSE, after |-> NoPrev]

Response(result) == [result |-> result, report |-> NoReport]
NoResponse == Response("none")

\* No update_document call is between its delete and its add.
IdleUpdate == [pc |-> "idle", id |-> 0, text |-> "-", src |-> NoSource, had |-> FALSE]

InFlight == {s \in SyncIds : syncs[s].pc # "idle"}

\* ------------------------------------------------------------ lifecycle
\* BaseService.initialize / shutdown on one service's flag.
\* (variant) the flag is set whether or not _initialize raised
initialize_always(flag, ok) == TRUE

\* BaseService.initialize: _initialize runs when the flag is not set, and the
\* flag is set when it did not raise (ok).
initialize(flag, ok) == IF ~flag THEN ok ELSE flag

\* BaseService.shutdown: _shutdown runs when the flag is set, and the flag is
\* cleared when it did not raise (ok).
shutdown(flag, ok) == IF flag THEN ~ok ELSE flag

\* EmbeddingService(config), LLMService(config), ...: __new__ returns the one
\* instance, and __init__ runs again on it because its guard looks for an
\* attribute `initialized` that nothing sets: BaseService.__init__ clears
\* _initialized, and the resource (_model, _vector_store, _text_splitter) is
\* set to None.
construct(flag) == FALSE

\* Application.shutdown_services: rag, chroma, llm, embedding, in this order.
shutdown_services(init) ==
    [s \in Services |->
        IF \E i \in 1..Len(ShutdownOrder) : ShutdownOrder[i] = s
        THEN shutdown(init[s], TRUE) ELSE init[s]]

\* Application.initialize_services: each service is constructed (BaseService.__init__
\* sets _initialized = False) and initialized in InitOrder; failAt = 0 means no
\* _initialize raises, failAt = i that the i-th raises: the services after it are
\* not touched, shutdown_services runs and the error is raised.
initialize_services(init, failAt) ==
    LET built == [s \in Services |->
                    LET i == CHOOSE j \in 1..Len(InitOrder) : InitOrder[j] = s
                    IN  IF failAt = 0 \/ i < failAt THEN initialize(construct(init[s]), TRUE)
                        ELSE IF i = failAt THEN initialize(construct(init[s]), FALSE)
                        ELSE init[s]]
    IN  IF failAt = 0 THEN built ELSE shutdown_services(built)

\* (variant) the operations do not look at is_initialized
NotInitialized_unchecked == FALSE

\* if not self.is_initialized: raise RuntimeError("ChromaService not initialized")
NotInitialized == ~initialized["chroma"]

\* ------------------------------------------------------- the event loop
\* (variant) the handlers run in a thread pool, as plain `def` routes would
CanStartHandler_threaded == TRUE

\* The routes are `async def` and their bodies hold no `await`: a handler that
\* started runs to its end before the loop starts another one.
CanStartHandler == InFlight = {} /\ update.pc = "idle"

\* ------------------------------------------------ vector store operations
\* (variant) the document is stored under the collection's first id, replacing
\* what is there
add_document_same_id(st, id, source, content, chunk, t, keys) ==
    {d \in st : d.id # 1} \cup
        {Doc(1, source, content, chunk, t, keys \cup {"created_at", "updated_at"})}

\* ChromaService.add_document: stamps created_at = updated_at = now and stores
\* the document under the fresh id Chroma returns.
add_document(st, id, source, content, chunk, t, keys) ==
    st \cup {Doc(id, source, content, chunk, t, keys \cup {"created_at", "updated_at"})}

\* (variant) the delete is undone when the update fails: nothing is removed
delete_document_undone(st, id) == st

\* ChromaService.delete_document: Chroma's delete by ids.
delete_document(st, id) == {d \in st : d.id # id}

\* ChromaService.delete_all: get every id, delete them all.
delete_all(st) == st \ {d \in st : d.id \in {e.id : e \in st}}

\* self.logger(...) at the end of update_document: Logger objects are used
\* through .info/.error/.warning everywhere else; calling the object raises.
logger_call_raises == TRUE

\* The metadata a request carries: no source.
RequestSources == {NoSource}
MetaKeys(src) == IF src = NoSource THEN {} ELSE {"source"}

\* prevRun after an operation that took the store from st to st2.
Since(st, st2) == IF st2 # st THEN NoPrev ELSE prevRun

\* POST /chroma/text -> ChromaService.add_document
AddText(text, src, addOk) ==
    /\ CanStartHandler
    /\ nextId < MaxDocs
    /\ IF NotInitialized
       THEN /\ response' = Response("NotInitialized")
            /\ UNCHANGED <<store, nextId, now>>
       ELSE IF addOk
       THEN /\ store' = add_document(store, nextId + 1, src, text, 1, now, MetaKeys(src))
            /\ nextId' = nextId + 1
            /\ now' = now + 1
            /\ response' = Response("ok")
       ELSE /\ UNCHANGED <<store, nextId, now>>
            /\ response' = Response("error")
    /\ prevRun' = Since(store, store')
    /\ UNCHANGED <<files, initialized, phase, syncs>>
    /\ UNCHANGED ragVars
    /\ UNCHANGED lifeVars

\* DELETE /chroma/document/{id} -> ChromaService.delete_document
DeleteDocument(id) ==
    /\ CanStartHandler
    /\ IF NotInitialized
       THEN /\ response' = Response("NotInitialized")
            /\ UNCHANGED store
       ELSE /\ store' = delete_document(store, id)
            /\ response' = Response("ok")
    /\ prevRun' = Since(store, store')
    /\ UNCHANGED <<files, nextId, now, initialized, phase, syncs>>
    /\ UNCHANGED ragVars
    /\ UNCHANGED lifeVars

\* DELETE /chroma/all -> ChromaService.delete_all
DeleteAll ==
    /\ CanStartHandler
    /\ IF NotInitialized
       THEN /\ response' = Response("NotInitialized")
            /\ UNCHANGED store
       ELSE /\ store' = delete_all(store)
            /\ response' = Response("ok")
    /\ prevRun' = Since(store, store')
    /\ UNCHANGED <<files, nextId, now, initialized, phase, syncs>>
    /\ UNCHANGED ragVars
    /\ UNCHANGED lifeVars

\* PUT /chroma/document/{id} -> ChromaService.update_document: delete the old
\* document, add the new one (add_document overwrites both timestamps with
\* its own reading of the clock), then log.
UpdateDocument(id, text, src, addOk) ==
    /\ CanStartHandler
    /\ nextId < MaxDocs
    /\ IF NotInitialized
       THEN /\ response' = Response("NotInitialized")
            /\ UNCHANGED <<store, nextId, now>>
       ELSE IF addOk
       THEN /\ store' = add_document(delete_document(store, id), nextId + 1, src,
                                     text, 1, now, MetaKeys(src))
            /\ nextId' = nextId + 1
            /\ now' = now + 1
            /\ response' = Response(IF logger_call_raises THEN "error" ELSE "ok")
       ELSE /\ store' = delete_document(store, id)
            /\ UNCHANGED <<nextId, now>>
            /\ response' = Response("error")
    /\ prevRun' = Since(store, store')
    /\ UNCHANGED <<files, initialized, phase, syncs>>
    /\ UNCHANGED ragVars
    /\ UNCHANGED lifeVars

\* update_document in its two store calls.  UpdateBegin: the route calls
\* update_document, which calls delete_document; had = the document existed.
UpdateBegin(id, text, src) ==
    /\ CanStartHandler
    /\ nextId < MaxDocs
    /\ IF NotInitialized
       THEN /\ response' = Response("NotInitialized")
            /\ UNCHANGED <<store, update>>
       ELSE /\ store' = delete_document(store, id)
            /\ update' = [pc |-> "add", id |-> id, text |-> text, src |-> src,
                          had |-> \E d \in store : d.id = id]
            /\ response' = Response("running")
    /\ prevRun' = Since(store, store')
    /\ UNCHANGED <<files, nextId, now, initialized, phase, syncs>>
    /\ UNCHANGED <<ragVars, life>>

\* UpdateAdd: add_document of the new document, then the log call.
UpdateAdd(addOk) ==
    /\ update.pc = "add"
    /\ IF addOk
       THEN /\ store' = add_document(store, nextId + 1, update.src, update.text, 1,
                                     now, MetaKeys(update.src))
            /\ nextId' = nextId + 1
            /\ now' = now + 1
            /\ response' = Response(IF logger_call_raises THEN "error" ELSE "ok")
       ELSE /\ UNCHANGED <<store, nextId, now>>
            /\ response' = Response("error")
    /\ update' = IdleUpdate
    /\ prevRun' = Since(store, store')
    /\ UNCHANGED <<files, initialized, phase, syncs>>
    /\ UNCHANGED <<ragVars, life>>

\* The read-only operations: similarity_search, get_all_documents,
\* is_file_processed (called directly), get_document_info.
ReadOps == {"similarity_search", "get_all", "is_file_processed", "info"}

ReadOnly(op) ==
    /\ CanStartHandler
    /\ response' = Response(IF NotInitialized THEN "NotInitialized" ELSE "ok")
    /\ UNCHANGED <<files, store, nextId, now, initialized, phase, syncs, prevRun>>
    /\ UNCHANGED ragVars
    /\ UNCHANGED lifeVars

\* ------------------------------------------------------- sync_directory
\* (variant) every sync clears the collection first
sync_begin_store_always(st, force) == delete_all(st)

\* The route's force branch: delete_all() before the sync, only when force.
sync_begin_store(st, force) == IF force THEN delete_all(st) ELSE st

\* for filename in os.listdir(directory): if filename.endswith('.txt')
listing == {n \in DirNames : n \in TxtNames}

\* os.listdir returns the names in one order; the loop follows it.
ListedBefore(f, g) == f = g \/ (f = "a.txt" /\ g = "b.txt")

BeginSync(force, st) ==
    [IdleSync EXCEPT !.pc = "loop", !.todo = listing, !.force = force,
                     !.empty_at_start = (st = {})]

\* The request slots are taken in order: req1 when it is free, else req2.
FreeSlot(s) ==
    /\ s # "startup"
    /\ syncs[s].pc = "idle"
    /\ s = "req2" => syncs["req1"].pc # "idle"

\* POST /chroma/sync?force=...: delete_all when forced, then sync_directory
\* up to the start of its loop.
SyncStart(s, force) ==
    /\ CanStartHandler
    /\ FreeSlot(s)
    /\ IF NotInitialized
       THEN /\ response' = Response("NotInitialized")
            /\ UNCHANGED <<store, syncs>>
       ELSE /\ store' = sync_begin_store(store, force)
            /\ syncs' = [syncs EXCEPT ![s] = BeginSync(force, store')]
            /\ response' = Response("running")
    /\ prevRun' = Since(store, store')
    /\ UNCHANGED <<files, nextId, now, initialized, phase>>
    /\ UNCHANGED ragVars
    /\ UNCHANGED lifeVars

Bump(stats, field, n) == [stats EXCEPT ![field] = @ + n]

\* One turn of the loop up to the decision: count the file, ask
\* is_file_processed; a processed file is skipped, another goes on to be added.
SyncCheck(s, f, lookupOk) ==
    /\ syncs[s].pc = "loop"
    /\ f \in syncs[s].todo
    /\ \A g \in syncs[s].todo : ListedBefore(f, g)
    /\ LET counted == Bump(syncs[s].stats, "total_files", 1)
           errs    == syncs[s].lookup_failed \/ ~lookupOk
       IN  IF is_file_processed(store, f, lookupOk)
           THEN syncs' = [syncs EXCEPT ![s].stats = Bump(counted, "skipped_files", 1),
                                       ![s].todo = @ \ {f}]
           ELSE syncs' = [syncs EXCEPT ![s].stats = counted,
                                       ![s].pc = "add", ![s].cur = f,
                                       ![s].lookupOk = lookupOk,
                                       ![s].lookup_failed = errs]
    /\ response' = Response("running")
    /\ UNCHANGED <<files, store, nextId, now, initialized, phase, prevRun>>
    /\ UNCHANGED ragVars
    /\ UNCHANGED lifeVars

\* processed_files is incremented inside `for doc in split_docs`, once per
\* chunk added.
count_processed(stats, added) == Bump(stats, "processed_files", added)

\* (variant) the exception leaves the loop and sync_directory
on_file_error_abort(sl) == [sl EXCEPT !.todo = {}, !.raised = TRUE]

\* except Exception: error_files += 1, and the loop goes on with the next file.
on_file_error(sl) == [sl EXCEPT !.stats = Bump(@, "error_files", 1)]

\* The rest of the turn: load_file, split_documents, add_document for each
\* chunk.  readOk = FALSE: load_file raises.  k < number of chunks: the add of
\* chunk k+1 raises after k chunks were stored.
SyncAdd(s, readOk, k) ==
    /\ syncs[s].pc = "add"
    /\ LET f      == syncs[s].cur
           chunks == split_documents(files[f])
           loaded == readOk /\ initialized["loader"]
           added  == IF loaded THEN k ELSE 0
           failed == ~loaded \/ k < Len(chunks)
           turn   == [syncs[s] EXCEPT !.stats = count_processed(@, added),
                                      !.failures = @ + (IF failed THEN 1 ELSE 0),
                                      !.todo = @ \ {f}, !.pc = "loop", !.cur = NoFile,
                                      !.lookupOk = TRUE]
       IN  /\ k \in 0..Len(chunks)
           /\ ~readOk => k = 0
           /\ nextId + Len(chunks) <= MaxDocs
           /\ store' = store \cup
                  {Doc(nextId + i, f, files[f], chunks[i], now + i - 1,
                       SyncKeys \cup {"created_at", "updated_at"}) : i \in 1..added}
           /\ nextId' = nextId + added
           /\ now' = now + added
           /\ syncs' = [syncs EXCEPT ![s] = IF failed THEN on_file_error(turn) ELSE turn]
    /\ response' = Response("running")
    /\ UNCHANGED <<files, initialized, phase, prevRun>>
    /\ UNCHANGED ragVars
    /\ UNCHANGED lifeVars

Report(s) ==
    [valid |-> TRUE, stats |-> syncs[s].stats, force |-> syncs[s].force,
     failures |-> syncs[s].failures, lookup_failed |-> syncs[s].lookup_failed,
     empty_at_start |-> syncs[s].empty_at_start, raised |-> syncs[s].raised,
     after |-> prevRun]

\* return stats: the loop is over, the report goes to the caller; the startup
\* sync's return lets lifespan reach its yield.
SyncEnd(s) ==
    /\ syncs[s].pc = "loop"
    /\ syncs[s].todo = {}
    /\ response' = [result |-> IF syncs[s].raised THEN "error" ELSE "ok",
                    report |-> Report(s)]
    /\ prevRun' = [valid |-> TRUE, processed_files |-> syncs[s].stats.processed_files,
                   error_free |-> syncs[s].stats.error_files = 0]
    /\ syncs' = [syncs EXCEPT ![s] = IdleSync]
    /\ phase' = IF s = "startup" THEN "serving" ELSE phase
    /\ UNCHANGED <<files, store, nextId, now, initialized>>
    /\ UNCHANGED ragVars
    /\ UNCHANGED lifeVars

\* --------------------------------------------------------------- lifespan
\* lifespan up to the startup sync: initialize_services(), then
\* sync_directory("data/raw"); a failed initialization ends in the finally
\* block's shutdown_services().
LifespanStartup(failAt) ==
    /\ phase = "down"
    /\ CanStartHandler
    /\ initialized' = IF failAt = 0 THEN initialize_services(initialized, failAt)
                      ELSE shutdown_services(initialize_services(initialized, failAt))
    /\ IF failAt = 0
       THEN /\ phase' = "startup"
            /\ syncs' = [syncs EXCEPT !["startup"] = BeginSync(FALSE, store)]
            /\ response' = Response("running")
       ELSE /\ response' = NoResponse
            /\ UNCHANGED <<phase, syncs>>
    /\ UNCHANGED <<files, store, nextId, now, prevRun>>
    /\ UNCHANGED ragVars
    /\ UNCHANGED lifeVars

\* lifespan after the yield: shutdown_services().
LifespanShutdown ==
    /\ phase = "serving"
    /\ CanStartHandler
    /\ initialized' = shutdown_services(initialized)
    /\ phase' = "down"
    /\ response' = NoResponse
    /\ UNCHANGED <<files, store, nextId, now, syncs, prevRun>>
    /\ UNCHANGED ragVars
    /\ UNCHANGED lifeVars

\* ------------------------------------------------------------ environment
\* Somebody edits a file of data/raw.
EditFile(f, c) ==
    /\ CanStartHandler
    /\ c # files[f]
    /\ files' = [files EXCEPT ![f] = c]
    /\ prevRun' = NoPrev
    /\ response' = NoResponse
    /\ UNCHANGED <<store, nextId, now, initialized, phase, syncs>>
    /\ UNCHANGED ragVars
    /\ UNCHANGED lifeVars

\* ------------------------------------------- the lifecycle, step by step
\* The services a service's constructor is given (application.py, 49 and 53).
Deps == [s \in Services |->
            IF s = "chroma" THEN {"embedding", "loader"}
            ELSE IF s = "rag" THEN {"chroma", "llm"}
            ELSE {}]

\* the service classes that keep one instance in cls._instance
Singletons == {"embedding", "llm", "loader", "chroma"}

\* The last call made on a service: ran = its hook (_initialize, _shutdown) ran.
NoCall == [op |-> "none", svc |-> "-", ran |-> FALSE, raised |-> FALSE]
Call(op, s, ran, raised) == [op |-> op, svc |-> s, ran |-> ran, raised |-> raised]

\* pc: where Application stands; idx: the service it is at; up, down: the
\* services initialized and shut down since initialize_services was entered;
\* failed: the service whose shutdown raised; ended: how the last
\* shutdown_services of a lifespan returned.
IdleLife == [pc |-> "idle", idx |-> 0, up |-> <<>>, down |-> <<>>,
             failed |-> "-", ended |-> "none", call |-> NoCall]

Construct(s) == initialized' = [initialized EXCEPT ![s] = construct(@)]
Initialize(s, ok) == initialized' = [initialized EXCEPT ![s] = initialize(@, ok)]
Shutdown(s, ok) == initialized' = [initialized EXCEPT ![s] = shutdown(@, ok)]

\* lifespan enters initialize_services()
StartInitialize ==
    /\ phase = "down"
    /\ life.pc = "idle"
    /\ life' = [IdleLife EXCEPT !.pc = "construct", !.idx = 1]
    /\ response' = NoResponse
    /\ UNCHANGED <<files, store, nextId, now, initialized, phase, syncs, prevRun>>
    /\ UNCHANGED ragVars
    /\ UNCHANGED update

\* self._x_service = XService(...)
ConstructService ==
    /\ life.pc = "construct"
    /\ LET s == InitOrder[life.idx]
       IN  /\ Construct(s)
           /\ life' = [life EXCEPT !.pc = "init",
                                   !.call = Call("construct", s, TRUE, FALSE)]
    /\ UNCHANGED <<files, store, nextId, now, phase, syncs, response, prevRun>>
    /\ UNCHANGED ragVars
    /\ UNCHANGED update

\* self._x_service.initialize(); ok = FALSE: _initialize raises, and the
\* except block goes to shutdown_services().
InitializeService(ok) ==
    /\ life.pc = "init"
    /\ LET s   == InitOrder[life.idx]
           ran == ~initialized[s]
       IN  /\ ~ran => ok
           /\ Initialize(s, ok)
           /\ life' = IF ok
                      THEN [life EXCEPT !.up = Append(@, s),
                                        !.pc = IF life.idx = Len(InitOrder)
                                               THEN "up" ELSE "construct",
                                        !.idx = IF life.idx = Len(InitOrder)
                                                THEN 0 ELSE @ + 1,
                                        !.call = Call("initialize", s, ran, FALSE)]
                      ELSE [life EXCEPT !.pc = "cleanup", !.idx = 1,
                                        !.call = Call("initialize", s, ran, TRUE)]
    /\ UNCHANGED <<files, store, nextId, now, phase, syncs, response, prevRun>>
    /\ UNCHANGED ragVars
    /\ UNCHANGED update

InShutdown == life.pc \in {"cleanup", "final", "shutdown"}

\* One `if self._x_service: self._x_service.shutdown()` of shutdown_services;
\* ok = FALSE: _shutdown raises, the except block logs and raises, and the
\* services after it are not reached.  Out of initialize_services' except
\* block the error goes through lifespan to its finally block, which calls
\* shutdown_services() again.
ShutdownService(ok) ==
    /\ InShutdown
    /\ life.idx \in 1..Len(ShutdownOrder)
    /\ LET s   == ShutdownOrder[life.idx]
           ran == initialized[s]
       IN  /\ ~ran => ok
           /\ Shutdown(s, ok)
           /\ life' = IF ok
                      THEN [life EXCEPT !.down = IF ran THEN Append(@, s) ELSE @,
                                        !.idx = @ + 1,
                                        !.call = Call("shutdown", s, ran, FALSE)]
                      ELSE IF life.pc = "cleanup"
                      THEN [life EXCEPT !.pc = "final", !.idx = 1, !.failed = s,
                                        !.call = Call("shutdown", s, ran, TRUE)]
                      ELSE [life EXCEPT !.pc = "idle", !.idx = 0, !.failed = s,
                                        !.ended = "error",
                                        !.call = Call("shutdown", s, ran, TRUE)]
    /\ UNCHANGED <<files, store, nextId, now, phase, syncs, response, prevRun>>
    /\ UNCHANGED ragVars
    /\ UNCHANGED update

\* shutdown_services returns: in initialize_services' except block the error
\* is raised on to lifespan's finally block; there, lifespan is over.
ShutdownReturn ==
    /\ InShutdown
    /\ life.idx = Len(ShutdownOrder) + 1
    /\ life' = IF life.pc = "cleanup"
               THEN [life EXCEPT !.pc = "final", !.idx = 1, !.call = NoCall]
               ELSE [life EXCEPT !.pc = "idle", !.idx = 0, !.ended = "ok",
                                 !.call = NoCall]
    /\ UNCHANGED <<files, store, nextId, now, initialized, phase, syncs, response, prevRun>>
    /\ UNCHANGED ragVars
    /\ UNCHANGED update

\* initialize_services has returned: lifespan calls sync_directory("data/raw")
BeginStartupSync ==
    /\ life.pc = "up"
    /\ phase = "down"
    /\ phase' = "startup"
    /\ syncs' = [syncs EXCEPT !["startup"] = BeginSync(FALSE, store)]
    /\ response' = Response("running")
    /\ UNCHANGED <<files, store, nextId, now, initialized, prevRun, life>>
    /\ UNCHANGED ragVars
    /\ UNCHANGED update

\* a request served between lifespan's yield and its finally block
ServeRequest(op) ==
    /\ phase = "serving"
    /\ life.pc = "up"
    /\ ReadOnly(op)

\* the server stops: lifespan's finally block enters shutdown_services()
StartShutdown ==
    /\ phase = "serving"
    /\ life.pc = "up"
    /\ CanStartHandler
    /\ phase' = "down"
    /\ life' = [life EXCEPT !.pc = "shutdown", !.idx = 1, !.call = NoCall]
    /\ response' = NoResponse
    /\ UNCHANGED <<files, store, nextId, now, initialized, syncs, prevRun>>
    /\ UNCHANGED ragVars
    /\ UNCHANGED update

\* ----------------------------------------- calls on one service, any order
CallInitialize(s, ok) ==
    /\ initialized[s] => ok
    /\ Initialize(s, ok)
    /\ life' = [IdleLife EXCEPT !.call = Call("initialize", s, ~initialized[s], ~ok)]
    /\ UNCHANGED <<files, store, nextId, now, phase, syncs, response, prevRun>>
    /\ UNCHANGED ragVars
    /\ UNCHANGED update

CallShutdown(s, ok) ==
    /\ ~initialized[s] => ok
    /\ Shutdown(s, ok)
    /\ life' = [IdleLife EXCEPT !.call = Call("shutdown", s, initialized[s], ~ok)]
    /\ UNCHANGED <<files, store, nextId, now, phase, syncs, response, prevRun>>
    /\ UNCHANGED ragVars
    /\ UNCHANGED update

\* ===================================================== answer() and the log
\* --------------------------------------------------------------- the inputs
\* Number of rows the interaction_logs table is asked to hold over a whole run.
MaxRows == 3

QueryIds == {"q1", "q2"}
Users == {"u1", "u2"}
\* A question is a string over the blank and a letter.
Questions == {<<>>, <<" ">>, <<"w">>, <<" ", "w">>}
\* The classes of the exceptions a collaborator raises.
ExcClasses == {"ValueError", "Exception"}
\* What the chain hands back: the expected dict, one without "result", one
\* without "source_documents".
ChainShapes == {"ok", "no_result", "no_sources"}
\* similarity_search(query, k=4)
DefaultK == 4
\* The calls of similarity_search: with a k, or without one.
SearchRequests == {[given |-> TRUE, k |-> k] : k \in {-1, 0, 1}}
                      \cup {[given |-> FALSE, k |-> 0]}

\* The DocumentMetadata lists posted to /interactions/.
DocumentMetadata(t, src) == [document_type |-> t, source |-> src]
PostedDocuments ==
    LET A == DocumentMetadata("hr_policy", "a.txt")
        B == DocumentMetadata("hr_policy", "b.txt")
        C == DocumentMetadata("text/plain", "a.txt")
    IN  {<<>>, <<A, A>>, <<A, B, C>>}

\* ------------------------------------------------------- pure operators
\* str.strip()
RECURSIVE lstrip(_)
lstrip(s) == IF s # <<>> /\ Head(s) = " " THEN lstrip(Tail(s)) ELSE s
Reverse(s) == [i \in 1..Len(s) |-> s[Len(s) + 1 - i]]
strip(s) == Reverse(lstrip(Reverse(lstrip(s))))

\* if not question or not question.strip()
question_is_empty(q) == q = <<>> \/ strip(q) = <<>>

Range(s) == {s[i] : i \in 1..Len(s)}

\* list(set(...)): the distinct values, in the order the set yields them.
RECURSIVE SetToSeq(_)
SetToSeq(S) == IF S = {} THEN <<>>
               ELSE LET x == CHOOSE y \in S : TRUE IN <<x>> \o SetToSeq(S \ {x})

\* (variant) the values as they come, repeated ones included
list_of_set_keep(s) == s

list_of_set(s) == SetToSeq(Range(s))

\* metadata.get(key, default) on a stored document
metadata_get(d, key, default) ==
    IF key \notin d.keys THEN default
    ELSE IF key = "source" THEN d.source
    ELSE IF key = "document_type" THEN "hr_policy"
    ELSE "text/plain"

\* Chroma's similarity_search: the k nearest documents; the embedding distance
\* is the order of insertion here.
RECURSIVE nearest(_, _)
nearest(st, k) ==
    IF st = {} \/ k <= 0 THEN <<>>
    ELSE LET d == CHOOSE x \in st : \A y \in st : x.id <= y.id
         IN  <<d>> \o nearest(st \ {d}, k - 1)

\* similarity_search(self, query, k=4): the k handed to the vector store.
similarity_search_k(req) == IF req.given THEN req.k ELSE DefaultK

\* The answer the chain generates for a question from the retrieved documents.
NoAnswer == <<>>
generate(question, docs) == <<"answer", question, Len(docs)>>

NoOutcome == [http |-> 0, exc |-> "none", detail |-> "none", answer |-> NoAnswer]
\* except Exception as e: raise HTTPException(status_code=500, detail=str(e))
Failure(exc, detail) == [http |-> 500, exc |-> exc, detail |-> detail, answer |-> NoAnswer]
\* return QueryResponse(**result)
Answered(answer) == [http |-> 200, exc |-> "none", detail |-> "none", answer |-> answer]

NoInteraction == [user_id |-> "-", query |-> <<>>, answer |-> NoAnswer,
                  timestamp |-> 0, source_documents |-> <<>>]
NoTask == [status |-> "none", interaction |-> NoInteraction]

IdleQuery == [trail |-> <<>>, user_id |-> "-", question |-> <<>>, docs |-> <<>>,
              retrievals |-> 0, generations |-> 0, submitted |-> 0,
              outcome |-> NoOutcome, cause |-> "none", task |-> NoTask]

NoRow == [id |-> 0, user_id |-> "-", query |-> <<>>, answer |-> NoAnswer]
NoReply == [op |-> "none", k |-> 0, queried |-> FALSE, count |-> 0, user_id |-> "-",
            row |-> NoRow]

Last(s) == IF s = <<>> THEN "IDLE" ELSE s[Len(s)]

\* the route's InteractionCreate(...) for a request and its result
InteractionCreate(qr, answer, docs, t) ==
    [user_id |-> qr.user_id, query |-> qr.question, answer |-> answer, timestamp |-> t,
     source_documents |->
         [i \in 1..Len(docs) |->
             DocumentMetadata(metadata_get(docs[i], "document_type", "text/plain"),
                              metadata_get(docs[i], "source", "unknown"))]]

\* (variant) the id is the number of rows plus one
new_id_count(rows) == Cardinality(rows) + 1

\* id = Column(Integer, primary_key=True): the database hands out one more than
\* the largest id in the table.
new_id(rows) ==
    IF rows = {} THEN 1
    ELSE (CHOOSE m \in {r.id : r \in rows} : \A r \in rows : r.id <= m) + 1

\* InteractionRepository.get_by_id: .filter(id == id).first()
get_by_id(rows, id) ==
    IF \E r \in rows : r.id = id
    THEN LET r == CHOOSE x \in rows : x.id = id
         IN  [id |-> r.id, user_id |-> r.user_id, query |-> r.query, answer |-> r.answer]
    ELSE NoRow

\* InteractionRepository.get_by_user_id
get_by_user_id(rows, u) == {r \in rows : r.user_id = u}

\* (variant) the purge forgets the filter
delete_by_user_id_all(rows, u) == {}

\* InteractionRepository.delete_by_user_id: the rows left after the commit
delete_by_user_id(rows, u) == rows \ get_by_user_id(rows, u)

\* InteractionService.create_interaction -> create_with_metadata: the row stored
\* (`given` keeps the source documents the call was handed, for the record)
create_interaction(id, interaction) ==
    [id |-> id, user_id |-> interaction.user_id, query |-> interaction.query,
     answer |-> interaction.answer, timestamp |-> interaction.timestamp,
     given |-> interaction.source_documents,
     document_types |-> list_of_set([i \in 1..Len(interaction.source_documents) |->
                                        interaction.source_documents[i].document_type]),
     sources |-> list_of_set([i \in 1..Len(interaction.source_documents) |->
                                 interaction.source_documents[i].source])]

\* ------------------------------------------------- POST /rag/rag_chat
\* The request slots are taken in order.
FreeQuery(q) ==
    /\ queries[q].trail = <<>>
    /\ q = "q2" => queries["q1"].trail # <<>>

\* (variant) a failed request is logged like an answered one
Fail_logged(qr, from, exc, detail, cause) ==
    [qr EXCEPT !.trail = from \o <<"FAILED">>, !.outcome = Failure(exc, detail),
               !.cause = cause, !.submitted = @ + 1,
               !.task = [status |-> "pending", interaction |-> NoInteraction]]

\* raise: the request ends in FAILED, the route answers 500 with str(e)
Fail(qr, from, exc, detail, cause) ==
    [qr EXCEPT !.trail = from \o <<"FAILED">>, !.outcome = Failure(exc, detail),
               !.cause = cause]

\* query() up to the first await of get_answer: the chain is built when it is
\* not yet (chainOk = FALSE: _initialize_qa_chain raises chainExc), then the
\* question is validated, then ainvoke starts.
QueryReceive(q, u, question, chainOk, chainExc) ==
    /\ phase = "serving"
    /\ FreeQuery(q)
    /\ LET qr == [IdleQuery EXCEPT !.user_id = u, !.question = question]
       IN  IF ~qa_chain /\ ~chainOk
           THEN /\ queries' = [queries EXCEPT ![q] =
                        Fail(qr, <<"RECEIVED">>, chainExc, "chain", "ProviderFailure")]
                /\ UNCHANGED qa_chain
           ELSE /\ qa_chain' = TRUE
                /\ queries' = [queries EXCEPT ![q] =
                        IF question_is_empty(question)
                        THEN Fail(qr, <<"RECEIVED">>, "ValueError",
                                  "Question cannot be empty", "InvalidArgument")
                        ELSE [qr EXCEPT !.trail = <<"RECEIVED", "VALIDATED">>]]
    /\ reply' = NoReply
    /\ UNCHANGED <<interactions, nextRow>>
    /\ UNCHANGED storeVars
    /\ UNCHANGED lifeVars

\* The chain's retriever answers (or raises): the k = 4 nearest documents.
QueryRetrieve(q, ok, exc) ==
    /\ Last(queries[q].trail) = "VALIDATED"
    /\ LET qr == [queries[q] EXCEPT !.retrievals = @ + 1]
       IN  queries' = [queries EXCEPT ![q] =
               IF ok
               THEN [qr EXCEPT !.trail = @ \o <<"RETRIEVED">>,
                               !.docs = nearest(store, DefaultK)]
               ELSE Fail(qr, qr.trail, exc, "retrieval", "ProviderFailure")]
    /\ reply' = NoReply
    /\ UNCHANGED <<qa_chain, interactions, nextRow>>
    /\ UNCHANGED storeVars
    /\ UNCHANGED lifeVars

\* background_tasks.add_task(create_interaction, interaction, db)
submit(qr, interaction) ==
    [qr EXCEPT !.submitted = @ + 1,
               !.task = [status |-> "pending", interaction |-> interaction]]

\* (variant) the interaction is built from what the service saw last
interaction_of_shared(q, qr, answer) ==
    LET other == CHOOSE o \in QueryIds : o # q
    IN  InteractionCreate(IF queries[other].trail # <<>> THEN queries[other] ELSE qr,
                          answer, qr.docs, now)

\* the interaction the route builds from its own request and result
interaction_of(q, qr, answer) == InteractionCreate(qr, answer, qr.docs, now)

\* The chain's model answers (or raises); get_answer checks the result and
\* formats it, the route builds the interaction, adds the background task and
\* returns the answer.
QueryGenerate(q, ok, exc, shape) ==
    /\ Last(queries[q].trail) = "RETRIEVED"
    /\ ~ok => shape = "ok"
    /\ LET qr     == [queries[q] EXCEPT !.generations = @ + 1]
           done   == qr.trail \o <<"GENERATED">>
           answer == generate(qr.question, qr.docs)
       IN  queries' = [queries EXCEPT ![q] =
               IF ~ok THEN Fail(qr, qr.trail, exc, "generation", "ProviderFailure")
               ELSE IF shape = "no_result"
               THEN Fail(qr, done, "ValueError", "Invalid response format from QA chain",
                         "Internal")
               ELSE IF shape = "no_sources"
               THEN Fail(qr, done, "KeyError", "source_documents", "Internal")
               ELSE [submit(qr, interaction_of(q, qr, answer))
                        EXCEPT !.trail = done \o <<"LOGGED">>,
                               !.outcome = Answered(answer)]]
    /\ reply' = NoReply
    /\ UNCHANGED <<qa_chain, interactions, nextRow>>
    /\ UNCHANGED storeVars
    /\ UNCHANGED lifeVars

\* (variant) a failed write fails the request
on_log_failure_raise(outcome) == Failure("Exception", "log write")

\* An exception in the background task is logged by the server; the response
\* has been sent.
on_log_failure(outcome) == outcome

\* The background task runs create_interaction after the response was sent.
LogWrite(q, ok) ==
    /\ queries[q].task.status = "pending"
    /\ ok => nextRow < MaxRows
    /\ IF ok
       THEN /\ interactions' = interactions \cup
                    {create_interaction(new_id(interactions), queries[q].task.interaction)}
            /\ nextRow' = nextRow + 1
            /\ queries' = [queries EXCEPT ![q].task.status = "done"]
       ELSE /\ queries' = [queries EXCEPT ![q].task.status = "failed",
                                          ![q].outcome = on_log_failure(@)]
            /\ UNCHANGED <<interactions, nextRow>>
    /\ reply' = NoReply
    /\ UNCHANGED qa_chain
    /\ UNCHANGED storeVars
    /\ UNCHANGED lifeVars

\* ------------------------------------------------- the interactions routes
\* the queries the posted interactions carry
PostedQueries == {<<"w">>, <<" ", "w">>}
\* the posted bodies: each query without documents, one query with each list
Posted == {[query |-> qu, source_documents |-> <<>>] : qu \in PostedQueries}
              \cup {[query |-> <<"w">>, source_documents |-> docs] : docs \in PostedDocuments}

\* POST /interactions/
CreateInteraction(u, question, docs) ==
    /\ nextRow < MaxRows
    /\ interactions' = interactions \cup
           {create_interaction(new_id(interactions),
                [user_id |-> u, query |-> question, answer |-> NoAnswer,
                 timestamp |-> now, source_documents |-> docs])}
    /\ nextRow' = nextRow + 1
    /\ reply' = [NoReply EXCEPT !.op = "create", !.count = 1, !.user_id = u,
                                !.row = get_by_id(interactions', new_id(interactions))]
    /\ UNCHANGED <<queries, qa_chain>>
    /\ UNCHANGED storeVars
    /\ UNCHANGED lifeVars

\* DELETE /interactions/user/{user_id}
DeleteUserData(u) ==
    /\ interactions' = delete_by_user_id(interactions, u)
    /\ reply' = [NoReply EXCEPT !.op = "delete_user", !.user_id = u,
                                !.count = Cardinality(get_by_user_id(interactions, u))]
    /\ UNCHANGED <<queries, qa_chain, nextRow>>
    /\ UNCHANGED storeVars
    /\ UNCHANGED lifeVars

\* GET /interactions/user/{user_id}
GetUserInteractions(u) ==
    /\ reply' = [NoReply EXCEPT !.op = "get_user", !.user_id = u,
                                !.count = Cardinality(get_by_user_id(interactions, u))]
    /\ UNCHANGED <<queries, qa_chain, interactions, nextRow>>
    /\ UNCHANGED storeVars
    /\ UNCHANGED lifeVars

\* the ids the lookups ask for: every id a row can get and one beyond
RequestRowIds == 1..(MaxRows + 1)

\* GET /interactions/{interaction_id}: the row, or 404 when there is none
GetInteraction(id) ==
    /\ LET found == get_by_id(interactions, id)
       IN  reply' = [NoReply EXCEPT !.op = IF found = NoRow THEN "404" ELSE "get",
                                    !.count = id, !.row = found]
    /\ UNCHANGED <<queries, qa_chain, interactions, nextRow>>
    /\ UNCHANGED storeVars
    /\ UNCHANGED lifeVars

\* ------------------------------------------------------ similarity_search
\* ChromaService.similarity_search(query, k): the call goes to the store with
\* the k it was given; backendOk: what Chroma does with a k that is not positive.
SimilaritySearch(req, backendOk) ==
    /\ phase = "serving"
    /\ LET k == similarity_search_k(req)
       IN  /\ k > 0 => backendOk
           /\ reply' = [NoReply EXCEPT
                  !.op = IF NotInitialized THEN "NotInitialized"
                         ELSE IF backendOk THEN "search" ELSE "error",
                  !.k = k,
                  !.queried = ~NotInitialized,
                  !.count = IF ~NotInitialized /\ backendOk
                            THEN Len(nearest(store, k)) ELSE 0]
    /\ UNCHANGED <<queries, qa_chain, interactions, nextRow>>
    /\ UNCHANGED storeVars
    /\ UNCHANGED lifeVars

\* ------------------------------------------------------------------ spec
\* No request to /rag or /interactions yet, an empty table.
RagIdle ==
    /\ queries = [q \in QueryIds |-> IdleQuery]
    /\ qa_chain = FALSE
    /\ interactions = {}
    /\ nextRow = 0
    /\ reply = NoReply
    /\ life = IdleLife
    /\ update = IdleUpdate

Init ==
    /\ files \in [TxtNames -> Contents]
    /\ store = {}
    /\ nextId = 0
    /\ now = 0
    /\ initialized = [s \in Services |-> FALSE]
    /\ phase = "down"
    /\ syncs = [s \in SyncIds |-> IdleSync]
    /\ response = NoResponse
    /\ prevRun = NoPrev
    /\ RagIdle

Next ==
    \/ \E failAt \in 0..Len(InitOrder) : LifespanStartup(failAt)
    \/ LifespanShutdown
    \/ \E t \in RequestTexts, src \in RequestSources, ok \in BOOLEAN : AddText(t, src, ok)
    \/ \E id \in RequestIds : DeleteDocument(id)
    \/ DeleteAll
    \/ \E id \in RequestIds, t \in RequestTexts, src \in RequestSources, ok \in BOOLEAN :
          UpdateDocument(id, t, src, ok)
    \/ \E op \in ReadOps : ReadOnly(op)
    \/ \E s \in SyncIds, force \in BOOLEAN : SyncStart(s, force)
    \/ \E s \in SyncIds, f \in TxtNames, ok \in BOOLEAN : SyncCheck(s, f, ok)
    \/ \E s \in SyncIds, ok \in BOOLEAN, k \in 0..MaxDocs : SyncAdd(s, ok, k)
    \/ \E s \in SyncIds : SyncEnd(s)
    \/ \E f \in TxtNames, c \in Contents : EditFile(f, c)

Spec == Init /\ [][Next]_vars

\* The service while it serves: the store after a startup sync of a.txt (two
\* chunks) and one free text, or the empty store of an empty directory.
ServingStores ==
    { {},
      { Doc(1, "a.txt", 2, 1, 0, SyncKeys \cup {"created_at", "updated_at"}),
        Doc(2, "a.txt", 2, 2, 1, SyncKeys \cup {"created_at", "updated_at"}),
        Doc(3, NoSource, "text", 1, 2, {"created_at", "updated_at"}) } }

Serving(st) ==
    /\ store = st
    /\ files = [f \in TxtNames |-> IF f = "a.txt" /\ st # {} THEN 2 ELSE 0]
    /\ nextId = Cardinality(st)
    /\ now = Cardinality(st)
    /\ initialized = [s \in Services |-> TRUE]
    /\ phase = "serving"
    /\ syncs = [s \in SyncIds |-> IdleSync]
    /\ response = Response("ok")
    /\ prevRun = NoPrev

RagInit ==
    /\ \E st \in ServingStores : Serving(st)
    /\ RagIdle

RagNext ==
    \/ \E q \in QueryIds, u \in Users, question \in Questions, ok \in BOOLEAN,
          exc \in ExcClasses : QueryReceive(q, u, question, ok, exc)
    \/ \E q \in QueryIds, ok \in BOOLEAN, exc \in ExcClasses : QueryRetrieve(q, ok, exc)
    \/ \E q \in QueryIds, ok \in BOOLEAN, exc \in ExcClasses, shape \in ChainShapes :
          QueryGenerate(q, ok, exc, shape)
    \/ \E q \in QueryIds, ok \in BOOLEAN : LogWrite(q, ok)
    \/ \E req \in SearchRequests, ok \in BOOLEAN : SimilaritySearch(req, ok)

\* The requests to /rag/rag_chat with their background writes, and the searches.
RagSpec == RagInit /\ [][RagNext]_vars

\* An await of get_answer is resumed when the collaborator it waits for has
\* answered or raised: a request that waits for its retrieval or for its
\* generation goes on.
RagFairSpec ==
    /\ RagSpec
    /\ \A q \in QueryIds :
          /\ WF_vars(\E ok \in BOOLEAN, exc \in ExcClasses : QueryRetrieve(q, ok, exc))
          /\ WF_vars(\E ok \in BOOLEAN, exc \in ExcClasses, shape \in ChainShapes :
                        QueryGenerate(q, ok, exc, shape))

LogNext ==
    \/ \E u \in Users, body \in Posted :
          CreateInteraction(u, body.query, body.source_documents)
    \/ \E u \in Users : DeleteUserData(u)
    \/ \E u \in Users : GetUserInteractions(u)
    \/ \E id \in RequestRowIds : GetInteraction(id)

\* The requests to the interactions routes.
LogSpec == RagInit /\ [][LogNext]_vars

\* The lifespan of the application, one service at a time, with the startup
\* sync and the requests served while it is up.
LifeNext ==
    \/ StartInitialize
    \/ ConstructService
    \/ \E ok \in BOOLEAN : InitializeService(ok)
    \/ \E ok \in BOOLEAN : ShutdownService(ok)
    \/ ShutdownReturn
    \/ BeginStartupSync
    \/ \E f \in TxtNames, lookupOk \in BOOLEAN : SyncCheck("startup", f, lookupOk)
    \/ \E readOk \in BOOLEAN, k \in 0..MaxDocs : SyncAdd("startup", readOk, k)
    \/ SyncEnd("startup")
    \/ \E op \in ReadOps : ServeRequest(op)
    \/ StartShutdown

LifeSpec == Init /\ [][LifeNext]_vars

\* The document routes and the sync while the application serves,
\* update_document in its two store calls.
UpdNext ==
    \/ \E id \in RequestIds, t \in RequestTexts, src \in RequestSources :
          UpdateBegin(id, t, src)
    \/ \E addOk \in BOOLEAN : UpdateAdd(addOk)
    \/ \E id \in RequestIds : DeleteDocument(id)
    \/ \E t \in RequestTexts, src \in RequestSources, addOk \in BOOLEAN :
          AddText(t, src, addOk)
    \/ DeleteAll
    \/ \E op \in ReadOps : ReadOnly(op)
    \/ \E s \in SyncIds, force \in BOOLEAN : SyncStart(s, force)
    \/ \E s \in SyncIds, f \in TxtNames, lookupOk \in BOOLEAN : SyncCheck(s, f, lookupOk)
    \/ \E s \in SyncIds, readOk \in BOOLEAN, k \in 0..MaxDocs : SyncAdd(s, readOk, k)
    \/ \E s \in SyncIds : SyncEnd(s)
    \/ \E f \in TxtNames, c \in Contents : EditFile(f, c)

UpdSpec == RagInit /\ [][UpdNext]_vars

\* The calls a service object takes, in any order.
BaseNext ==
    \/ \E s \in Services, ok \in BOOLEAN : CallInitialize(s, ok)
    \/ \E s \in Services, ok \in BOOLEAN : CallShutdown(s, ok)

BaseSpec == Init /\ [][BaseNext]_vars

\* ================================================================ claims
\* A sync has just returned its report R.
SyncDone == response.report.valid
R == response.report
\* R.after.valid: a sync had finished before this one, and between the end of
\* that one and the end of this one no file was edited and nothing but this
\* sync touched the store.

C2_EditReinserted ==
    \A f \in TxtNames :
        ( /\ prevRun.valid /\ prevRun.error_free
          /\ NumChunks(files[f]) > 0
          /\ \E d \in store : d.source = f /\ "file_modified_at" \in d.keys )
        => \E d \in store : d.source = f /\ d.content = files[f]

\* C3: a failure in reading, splitting or adding one file is caught and
\* counted in error_files, sync does not raise, and every matching file of the
\* directory is counted in the same run.
C3_FailureIsolated ==
    SyncDone =>
        /\ ~R.raised
        /\ response.result = "ok"
        /\ R.stats.total_files = Cardinality(listing)
        /\ R.stats.error_files = R.failures

C3_Witness ==
    /\ SyncDone
    /\ R.failures = 1
    /\ R.stats.processed_files > 0
    /\ R.stats.total_files = 2

\* C4: processed_files counts each file once, whatever its number of chunks,
\* so in every report processed_files <= total_files.
C4_ProcessedAtMostTotal ==
    SyncDone => R.stats.processed_files <= R.stats.total_files

\* C5: of two consecutive syncs with nothing changed in between (no failure in
\* either), the second's skipped_files equals the first's processed_files.
C5_SkippedEqualsProcessed ==
    (SyncDone /\ R.after.valid /\ R.after.error_free /\ R.failures = 0 /\ ~R.lookup_failed)
        => R.stats.skipped_files = R.after.processed_files

\* C6: after delete_all() get_all_documents() returns no document, and a sync
\* that follows a delete_all on a directory of non-empty files reports, when
\* nothing fails, processed_files = total_files.
C6_DeleteAllThenSync ==
    [][ /\ (DeleteAll /\ response'.result = "ok") => get_all_documents(store') = {}
        /\ ( /\ response'.report.valid
             /\ response'.report.force
             /\ response'.report.failures = 0
             /\ ~response'.report.lookup_failed
             /\ \A f \in TxtNames : NumChunks(files'[f]) > 0 )
           => response'.report.stats.processed_files = response'.report.stats.total_files
      ]_vars

\* C7: a sync without force keeps every document the store held, unchanged, in
\* each of its steps; within a sync the store loses documents only in the
\* first step of a sync called with force = true.
StepOf(s) == syncs[s].pc # "idle" \/ syncs'[s].pc # "idle"
Starts(s) == syncs[s].pc = "idle" /\ syncs'[s].pc # "idle"

C7_NoImplicitDelete ==
    [][ \A s \in SyncIds :
          /\ (StepOf(s) /\ ~(IF Starts(s) THEN syncs'[s].force ELSE syncs[s].force))
                => store \subseteq store'
          /\ (StepOf(s) /\ ~(store \subseteq store'))
                => (Starts(s) /\ syncs'[s].force)
      ]_vars

C7_Witness ==
    /\ SyncDone /\ ~R.force
    /\ R.stats.processed_files > 0
    /\ R.stats.skipped_files > 0

\* C8: at most one sync is in flight at a time, and a sync that found no
\* document of a file adds the file's chunks to a store that still holds none.
C8_SyncSerialized ==
    /\ Cardinality(InFlight) <= 1
    /\ \A s \in SyncIds :
          (syncs[s].pc = "add" /\ syncs[s].lookupOk)
              => ~\E d \in store : d.source = syncs[s].cur

C8_Witness ==
    /\ syncs["req1"].pc = "add"
    /\ syncs["req1"].lookupOk
    /\ \E d \in store : d.source # syncs["req1"].cur /\ d.source \in TxtNames

\* C9: a public operation called while the store is not initialized returns
\* the not-initialized error and changes neither the store nor anything else
\* but the response.
C9_NotInitialized ==
    [][ (~initialized["chroma"] /\ response'.result # "none" /\ phase' # "startup")
          => /\ response'.result = "NotInitialized"
             /\ store' = store
             /\ UNCHANGED <<files, nextId, now, initialized, phase, syncs, prevRun>>
      ]_vars

C9_Witness ==
    /\ response.result = "NotInitialized"
    /\ store # {}
    /\ phase = "down"

\* C10: update(id, content, metadata) of a stored document completes without
\* error, and afterwards the store holds a document with the new content whose
\* updated_at is later than that of the document replaced.
C10_UpdateRoundTrip ==
    [][ \A id \in RequestIds, t \in RequestTexts, src \in RequestSources :
          ( /\ initialized["chroma"]
            /\ \E d \in store : d.id = id
            /\ UpdateDocument(id, t, src, TRUE) )
          => /\ response'.result = "ok"
             /\ \E d \in store' :
                   /\ d.content = t
                   /\ \A o \in store : o.id = id => d.updated_at > o.updated_at
      ]_vars

\* C11: no step changes what is stored under an id that stays in the store; a
\* document that enters the store does so under an id the store did not hold;
\* an update of a stored id leaves no document under that id and stores the
\* replacement under an id that was not in the store.
Ids(st) == {d.id : d \in st}

C11_NeverMutatedInPlace ==
    [][ /\ \A d \in store : d.id \in Ids(store') => d \in store'
        /\ \A e \in store' \ store : e.id \notin Ids(store)
        /\ \A d, e \in store' : d.id = e.id => d = e
        /\ \A id \in RequestIds, t \in RequestTexts, src \in RequestSources :
              ( /\ initialized["chroma"]
                /\ id \in Ids(store)
                /\ UpdateDocument(id, t, src, TRUE) )
              => /\ id \notin Ids(store')
                 /\ \E e \in store' \ store : e.content = t /\ e.id \notin Ids(store)
      ]_vars

\* an update has replaced document 1 by document 2
C11_Witness ==
    /\ Ids(store) = {2}
    /\ nextId = 2
    /\ \E e \in store : e.source = NoSource /\ e.updated_at > 0
    /\ response.result = "error"

\* C12: every document of the store carries the keys source, document_type,
\* content_type, created_at, updated_at and the fingerprint (hash) of its
\* source.
RequiredKeys == {"source", "document_type", "content_type", "created_at",
                 "updated_at", "hash"}

C12_MetadataKeys == \A d \in store : RequiredKeys \subseteq d.keys

\* C13: a similarity search with k <= 0 fails with InvalidArgument without the
\* backing store being queried, and a search without k uses k = 4.
C13_SearchK ==
    [][ \A req \in SearchRequests, ok \in BOOLEAN :
          SimilaritySearch(req, ok) =>
              /\ ~req.given => reply'.k = 4
              /\ (req.given /\ req.k <= 0) =>
                    (reply'.op = "InvalidArgument" /\ ~reply'.queried)
      ]_vars

\* C14: a request whose question is empty or made of blanks only fails with the
\* validation error ("Question cannot be empty"), and no retrieval, no
\* generation and no log write is made for it.
Blank(question) == \A i \in 1..Len(question) : question[i] = " "
Started(q) == queries[q].trail # <<>>

C14_EmptyQuestion ==
    \A q \in QueryIds :
        (Started(q) /\ Blank(queries[q].question))
        => /\ queries[q].outcome = Failure("ValueError", "Question cannot be empty")
           /\ queries[q].retrievals = 0
           /\ queries[q].generations = 0
           /\ queries[q].submitted = 0
           /\ queries[q].task = NoTask

\* The order of C15: a request passes RECEIVED, VALIDATED, RETRIEVED, GENERATED,
\* LOGGED in this order and may leave for FAILED from any of the first four; it retrieves
\* only once validated, generates only once retrieved, submits the log write
\* only once generated, is LOGGED only with an answer, and after LOGGED or
\* FAILED none of its steps runs again.
HappyPath == <<"RECEIVED", "VALIDATED", "RETRIEVED", "GENERATED", "LOGGED">>
IsPrefix(t, n) == Len(t) = n /\ \A i \in 1..n : t[i] = HappyPath[i]
WellFormedTrail(t) ==
    \/ \E n \in 0..5 : IsPrefix(t, n)
    \/ \E n \in 1..4 : /\ Len(t) = n + 1
                       /\ IsPrefix(SubSeq(t, 1, n), n)
                       /\ t[n + 1] = "FAILED"
Terminal(qr) == Last(qr.trail) \in {"LOGGED", "FAILED"}

PipelineOrder ==
    [][ \A q \in QueryIds :
          LET a == queries[q]
              b == queries'[q]
          IN  /\ WellFormedTrail(b.trail)
              /\ b.retrievals <= 1 /\ b.generations <= 1 /\ b.submitted <= 1
              /\ b.retrievals > 0 => "VALIDATED" \in Range(b.trail)
              /\ b.generations > 0 => "RETRIEVED" \in Range(b.trail)
              /\ b.submitted > 0 => "GENERATED" \in Range(b.trail)
              /\ Last(b.trail) = "LOGGED" <=> b.outcome.http = 200
              /\ Last(b.trail) = "FAILED" <=> b.outcome.http = 500
              /\ Terminal(a) =>
                    /\ b.trail = a.trail
                    /\ b.retrievals = a.retrievals
                    /\ b.generations = a.generations
                    /\ b.submitted = a.submitted
      ]_vars

\* C15: every request follows this order, and every request received ends in
\* LOGGED or in FAILED.
C15_Pipeline ==
    /\ PipelineOrder
    /\ \A q \in QueryIds : Started(q) ~> Terminal(queries[q])

\* one request failed after its generation, the other was answered and logged
C15_Witness ==
    /\ queries["q1"].trail = <<"RECEIVED", "VALIDATED", "RETRIEVED", "GENERATED", "FAILED">>
    /\ queries["q2"].trail = HappyPath
    /\ queries["q2"].task.status = "done"

\* C16: the log write runs after the answer was returned, and its failure
\* leaves the answer as it was returned.
Written(qr) == qr.task.status \in {"done", "failed"}

C16_BackgroundWrite ==
    [][ \A q \in QueryIds :
          /\ queries'[q].task.status # "none" => queries'[q].outcome.http = 200
          /\ (~Written(queries[q]) /\ Written(queries'[q]))
                => /\ queries[q].task.status = "pending"
                   /\ queries[q].outcome.http = 200
                   /\ queries'[q].outcome = queries[q].outcome
      ]_vars

C16_Witness ==
    /\ queries["q1"].task.status = "failed"
    /\ queries["q1"].outcome.http = 200
    /\ queries["q1"].outcome.answer # NoAnswer

\* C17: a request that returned an answer has submitted exactly one log write,
\* carrying its own user_id, question and answer, whatever the other request
\* did meanwhile; a request that failed has submitted none.
C17_OneWritePerAnswer ==
    \A q \in QueryIds :
        LET qr == queries[q]
        IN  /\ qr.outcome.http = 200 =>
                /\ qr.submitted = 1
                /\ qr.task.interaction.user_id = qr.user_id
                /\ qr.task.interaction.query = qr.question
                /\ qr.task.interaction.answer = qr.outcome.answer
            /\ qr.outcome.http = 500 => (qr.submitted = 0 /\ qr.task = NoTask)
            /\ qr.task.status = "done" =>
                  \E r \in interactions : /\ r.user_id = qr.user_id
                                          /\ r.query = qr.question
                                          /\ r.answer = qr.outcome.answer
            /\ Cardinality(interactions)
                  = Cardinality({o \in QueryIds : queries[o].task.status = "done"})

\* two requests of different users in flight together, both answered
C17_Witness ==
    /\ queries["q1"].task.status = "pending"
    /\ queries["q2"].task.status = "done"
    /\ queries["q1"].user_id # queries["q2"].user_id
    /\ queries["q1"].question # queries["q2"].question
    /\ Cardinality(interactions) = 1

\* C18: the outcome of a failed request tells the kind of the failure: two
\* failures of different kinds (InvalidArgument, ProviderFailure, Internal)
\* differ in the exception raised or in the status answered.  (The free text
\* of the message is no kind.)
Kind(outcome) == <<outcome.exc, outcome.http>>

C18_FailureKinds ==
    \A q, o \in QueryIds :
        ( /\ Last(queries[q].trail) = "FAILED"
          /\ Last(queries[o].trail) = "FAILED"
          /\ queries[q].cause # queries[o].cause )
        => Kind(queries[q].outcome) # Kind(queries[o].outcome)

\* C19: the interaction stored for a query lists each document_type and each
\* source of its source documents exactly once: no value twice, none missing,
\* none added.
NoDuplicate(seq) == \A i, j \in 1..Len(seq) : seq[i] = seq[j] => i = j

C19_DistinctTags ==
    \A r \in interactions :
        /\ NoDuplicate(r.document_types)
        /\ NoDuplicate(r.sources)
        /\ Range(r.document_types) = {r.given[i].document_type : i \in 1..Len(r.given)}
        /\ Range(r.sources) = {r.given[i].source : i \in 1..Len(r.given)}

\* a query whose three source documents have two sources and two types
C19_Witness ==
    \E r \in interactions :
        /\ Len(r.given) = 3
        /\ Len(r.sources) = 2
        /\ Len(r.document_types) = 2
        /\ \E q \in QueryIds : queries[q].task.status = "done"

\* C20: delete_by_user_id(u) removes the rows of user u and no other, returns
\* their number (0, without error, when there is none), and leaves no row of u.
C20_DeleteByUser ==
    [][ \A u \in Users :
          DeleteUserData(u) =>
              /\ reply'.op = "delete_user"
              /\ interactions' = {r \in interactions : r.user_id # u}
              /\ reply'.count = Cardinality({r \in interactions : r.user_id = u})
              /\ ~\E r \in interactions' : r.user_id = u
              /\ (~\E r \in interactions : r.user_id = u)
                    => (reply'.count = 0 /\ interactions' = interactions)
      ]_vars

\* two rows of a user were removed, another user's row is still there
C20_Witness ==
    /\ reply.op = "delete_user"
    /\ reply.count = 2
    /\ \E r \in interactions : r.user_id # reply.user_id
    /\ ~\E r \in interactions : r.user_id = reply.user_id

\* C27: update_document is not atomic: when its add fails after its delete
\* succeeded, the update ends in an error and the old document is gone, with
\* no new document in its place.
C27_UpdateNotAtomic ==
    [][ \A id \in RequestIds, t \in RequestTexts, src \in RequestSources :
          (UpdateDocument(id, t, src, FALSE) /\ ~NotInitialized) =>
              /\ response'.result = "error"
              /\ ~\E d \in store' : d.id = id
              /\ store' = {d \in store : d.id # id}
              /\ nextId' = nextId
      ]_vars

\* two documents were added; the update of the second failed in its add
C27_Witness ==
    /\ initialized["chroma"]
    /\ response.result = "error"
    /\ nextId = 2
    /\ Ids(store) = {1}

\* C28: when the add of a file's chunks fails after at least one chunk was
\* stored, the stored chunks stay, and a later sync without force whose lookup
\* succeeds skips the file while one of its chunks is in the store: it stores
\* nothing for it.
StoredOf(f) == {d \in store : d.source = f}

FailedTurn(s) ==
    /\ syncs[s].pc = "add"
    /\ syncs'[s].pc = "loop"
    /\ syncs'[s].failures > syncs[s].failures

Skipped(s) ==
    /\ store' = store
    /\ syncs'[s].pc = "loop"
    /\ syncs'[s].stats.skipped_files = syncs[s].stats.skipped_files + 1

RowIds(rows) == {r.id : r \in rows}

Returned(r) ==
    /\ reply'.row.id = r.id
    /\ reply'.row.user_id = r.user_id
    /\ reply'.row.query = r.query
    /\ reply'.row.answer = r.answer

C21_IdentityStable ==
    [][ /\ \A r1, r2 \in interactions' : r1.id = r2.id => r1 = r2
        /\ \A u \in Users, question \in PostedQueries, docs \in PostedDocuments :
              CreateInteraction(u, question, docs) =>
                  \E r \in interactions' \ interactions :
                      /\ r.id \notin RowIds(interactions)
                      /\ r.user_id = u /\ r.query = question
                      /\ Returned(r)
        /\ \A r \in interactions :
              r \in interactions' \/ DeleteUserData(r.user_id)
        /\ \A id \in RequestRowIds :
              GetInteraction(id) =>
                  /\ \A r \in interactions : r.id = id => (reply'.op = "get" /\ Returned(r))
                  /\ id \notin RowIds(interactions) =>
                        (reply'.op = "404" /\ reply'.row = NoRow)
                  /\ id > nextRow => reply'.op = "404"
      ]_vars

\* the second of two interactions is looked up after the first was purged
C21_Witness ==
    /\ reply.op = "get"
    /\ reply.row.id = 2
    /\ reply.row.query = <<" ", "w">>
    /\ nextRow = 2
    /\ RowIds(interactions) = {2}

\* C22: no service starts initializing while a service it depends on is
\* uninitialized (the vector store after embedding and loader, the
\* orchestrator after vector store and generation), and the startup sync and
\* the requests run only after initialize_services has returned, with every
\* service initialized.
C22_DependenciesFirst ==
    [][ /\ (\E ok \in BOOLEAN : InitializeService(ok)) =>
              \A d \in Deps[life'.call.svc] : initialized[d]
        /\ ((\E op \in ReadOps : ServeRequest(op)) \/ syncs' # syncs) =>
              /\ life.pc = "up"
              /\ \A s \in Services : initialized[s]
      ]_vars

\* a request was served after all five services were initialized in this run
C22_Witness ==
    /\ phase = "serving"
    /\ life.pc = "up"
    /\ Len(life.up) = 5
    /\ response = Response("ok")

\* C23 (amended): initialize_services initializes the services strictly one
\* after another in the order embedding, generation, loader/splitter, vector
\* store, orchestrator.
CodeOrder == <<"embedding", "llm", "loader", "chroma", "rag">>
StatedOrder == <<"embedding", "loader", "chroma", "llm", "rag">>

PrefixOf(t, order) == Len(t) <= Len(order) /\ \A i \in 1..Len(t) : t[i] = order[i]

OneAfterAnother(order) ==
    /\ PrefixOf(life'.up, order)
    /\ life'.up # life.up =>
          \/ life'.up = <<>>
          \/ life'.up = Append(life.up, order[Len(life.up) + 1])
    /\ life'.pc = "up" => life'.up = order

C23_InitOrder == [][OneAfterAnother(CodeOrder)]_vars

\* initialize_services has just returned
C23_Witness ==
    /\ life.pc = "up"
    /\ phase = "down"
    /\ Len(life.up) = 5

\* C23 as stated: the order is embedding, loader/splitter, vector store,
\* generation, orchestrator.
C23_Original == [][OneAfterAnother(StatedOrder)]_vars

\* C24: when shutdown_services has returned, the services initialize_services
\* initialized have been shut down in the exact reverse of the order they were
\* initialized in, and none reports is_initialized = true.
C24_ReverseShutdown ==
    life.ended = "ok" =>
        /\ life.down = Reverse(life.up)
        /\ \A s \in Services : ~initialized[s]

\* C25: when the shutdown of a service fails, the services shutdown_services
\* handles other than the failing one are still shut down.
C25_BestEffort ==
    life.ended = "error" =>
        \A i \in 1..Len(ShutdownOrder) :
            ShutdownOrder[i] # life.failed => ~initialized[ShutdownOrder[i]]

\* C29: initialize() runs _initialize only when the service is not
\* initialized and sets the flag only when it did not raise; shutdown() runs
\* _shutdown only when the service is initialized and clears the flag only
\* when it did not raise; so is_initialized turns true only in a successful
\* initialize() and false only in a successful shutdown().
C29_BaseService ==
    [][ \A s \in Services :
          /\ \A ok \in BOOLEAN :
                /\ CallInitialize(s, ok) =>
                      /\ life'.call.ran = ~initialized[s]
                      /\ initialized'[s] = (initialized[s] \/ ok)
                /\ CallShutdown(s, ok) =>
                      /\ life'.call.ran = initialized[s]
                      /\ initialized'[s] = (initialized[s] /\ ~ok)
          /\ (~initialized[s] /\ initialized'[s]) =>
                life'.call = Call("initialize", s, TRUE, FALSE)
          /\ (initialized[s] /\ ~initialized'[s]) =>
                life'.call = Call("shutdown", s, TRUE, FALSE)
      ]_vars

\* a shutdown that raised has left the service initialized
C29_Witness ==
    /\ life.call = Call("shutdown", "chroma", TRUE, TRUE)
    /\ initialized["chroma"]
    /\ ~initialized["embedding"]

\* C30: constructing a service singleton again after it was initialized
\* leaves its initialized flag (and with it its resource) unchanged.
C30_SingletonKept ==
    [][ (ConstructService /\ initialized[life'.call.svc] /\ life'.call.svc \in Singletons)
            => initialized' = initialized
      ]_vars

\* C26: between the delete and the add of an update_document call nothing
\* else runs: no other update or delete (of the same id or another), and no
\* query or listing that could see the document missing; the step that
\* follows the delete is the add of the same call.
C26_UpdateExclusive ==
    [][ update.pc = "add" =>
            /\ \E addOk \in BOOLEAN : UpdateAdd(addOk)
            /\ update'.pc = "idle"
      ]_vars

\* an update has deleted its document and not yet added the new one
C26_Witness ==
    /\ update.pc = "add"
    /\ update.had
    /\ ~\E d \in store : d.id = update.id
    /\ store # {}

====
